---- MODULE Spec2Model ----
(***************************************************************************)
(* Model of the search package of mcp-websearch-server: the two           *)
(* MultiEngineSearcher implementations (multiEngineSearcher and           *)
(* HybridMultiEngineSearcher), their Search and DeepSearch operations,    *)
(* the fallback chain, the provider fan-out of DeepSearch and the         *)
(* semaphore-bounded content extraction; the DeepReader (options,         *)
(* filterLinks, DeepRead and crawlSubPages); and utils.RetryWithBackoff.  *)
(***************************************************************************)
EXTENDS Integers, Sequences, FiniteSets, TLC

\* ---------------------------------------------------------------- bounds
MaxAvail == 2      \* most results one provider has for the query
MaxWanted == 2     \* largest opts.MaxResults of a request
MaxNames == 1      \* longest opts.Engines of a request
MaxBatch == 4      \* largest result batch handed directly to the extractor loop
MaxList == 3       \* longest name list handed directly to getEngines / selectEngine
MaxOpts == 2       \* most options handed to NewDeepReader
MaxRaw == 2        \* most links of a raw link list handed to filterLinks
MaxTries == 3      \* largest config.MaxAttempts handed to RetryWithBackoff
MaxAsked == 2      \* longest opts.Engines of a DeepSearch fan-out request
MaxBudget == 3     \* largest opts.MaxResults of a DeepSearch fan-out request
MaxCrawl == 4      \* most candidate links handed directly to crawlSubPages

\* ------------------------------------------------------------- constants
KnownNames == {"bing", "brave", "duckduckgo"}
\* Names a caller may ask for: the known ones and one no constructor registers.
RequestNames == KnownNames \cup {"google"}
Kinds == {"multi", "hybrid"}

VARIABLES
    kind,             \* which implementation serves the request
    op,               \* "Search", "DeepSearch", "Extract" (the extraction loop alone)
                      \* or "Resolve" (getEngines and selectEngine alone)
    opts,             \* SearchOptions of the request
    engines,          \* keys of the engines map
    engineErr,        \* registered providers whose Search returns an error
    engineHits,       \* number of results each provider has for the query
    pc,               \* position of the calling goroutine
    engine,           \* Search: the provider selectEngine returned ("none" = nil)
    fbIdx,            \* fallbackSearch: index into priorityOrder
    results,          \* Search: results; DeepSearch: allResults
    ret,              \* what the operation returned: [err, results]
    calls,            \* per provider, the caps of its invocations so far
    engs,             \* DeepSearch: the slice getEngines returned
    resultsPerEngine, \* DeepSearch: per-provider cap
    gpc,              \* DeepSearch: position of each provider goroutine
    gres,             \* DeepSearch: results local to each provider goroutine
    gtmp,             \* DeepSearch: allResults as read by the appending goroutine
    mu,               \* DeepSearch: holder of the mutex, 0 when free
    merged,           \* DeepSearch: allResults as found after wg.Wait()
    tpc,              \* extraction: position of each per-result goroutine
    semaphore,        \* extraction: number of tokens in the semaphore channel
    failed,           \* extraction: indices whose extractor call returned an error
    extractCalls,     \* extraction: number of extractor invocations so far
    expired,          \* Search: the deadline of context.WithTimeout has passed
    d,                \* the DeepReader: [maxLinks, sameDomain, concurrency]
    dopts,            \* NewDeepReader: the options passed to the constructor
    oi,               \* NewDeepReader: position of the loop over the options
    baseURL,          \* DeepRead / filterLinks: the seed URL
    allLinks,         \* the links found on the seed page
    filteredLinks,    \* what filterLinks returned
    subResults,       \* crawlSubPages: the results slice, one slot per link
    cpc,              \* crawlSubPages: position of each per-link goroutine
    sem,              \* crawlSubPages: number of tokens in the sem channel
    dres,             \* what DeepRead returned
    config,           \* RetryWithBackoff: the RetryConfig
    attempt,          \* RetryWithBackoff: the loop counter
    delay,            \* RetryWithBackoff: the current delay
    lastErr,          \* RetryWithBackoff: the last error of fn (0 is nil)
    ctxDone,          \* when ctx was cancelled: "no", "running" or "parked"
    fnCalls,          \* RetryWithBackoff: what each invocation of fn returned
    rerr              \* what RetryWithBackoff returned

\* The variables of the deep reader and the deadline flag.
\* The variables of RetryWithBackoff.
tvars == <<config, attempt, delay, lastErr, ctxDone, fnCalls, rerr>>

rvars == <<expired, d, dopts, oi, baseURL, allLinks, filteredLinks, subResults, cpc,
           sem, dres, tvars>>

vars == <<kind, op, opts, engines, engineErr, engineHits, pc, engine, fbIdx,
          results, ret, calls, engs, resultsPerEngine, gpc, gres, gtmp, mu,
          merged, tpc, semaphore, failed, extractCalls, rvars>>

\* --------------------------------------------------------------- helpers
Min(a, b) == IF a < b THEN a ELSE b
Max(a, b) == IF a > b THEN a ELSE b

Range(s) == {s[i] : i \in 1..Len(s)}

SeqsUpTo(S, n) == UNION {[1..k -> S] : k \in 0..n}

RECURSIVE SumOver(_, _)
SumOver(f, n) == IF n = 0 THEN 0 ELSE f[n] + SumOver(f, n - 1)

\* A SearchResult as a provider produces it: no Content, zero ExtractedAt.
SearchResult(name, i) ==
    [Engine |-> name, Rank |-> i, Content |-> "", ExtractedAt |-> FALSE]

\* SearchEngine.Search: an error, or at most maxResults results tagged with
\* the provider's own name.  The providers issue their requests with the
\* caller's ctx, so a call that is still out when the deadline passes fails.
EngineSearch(name, maxResults) ==
    IF expired \/ name \in engineErr \/ name \notin engines
    THEN [ok |-> FALSE, results |-> <<>>]
    ELSE [ok |-> TRUE,
          results |-> [i \in 1..Min(engineHits[name], maxResults) |-> SearchResult(name, i)]]

\* A bug that gives multiEngineSearcher the hybrid searcher's order.
PriorityOrderHybridOnly(k) == <<"duckduckgo", "bing", "brave">>

PriorityOrder(k) ==
    IF k = "multi" THEN <<"bing", "brave", "duckduckgo">>
                  ELSE <<"duckduckgo", "bing", "brave">>

SemaphoreSize(k) == IF k = "multi" THEN 3 ELSE 2

\* A bug that keeps looking after a hit and so returns the last registered name.
RECURSIVE FirstRegisteredLast(_, _)
FirstRegisteredLast(s, i) ==
    IF i > Len(s) THEN "none"
    ELSE LET later == FirstRegisteredLast(s, i + 1)
         IN  IF later # "none" THEN later
             ELSE IF s[i] \in engines THEN s[i] ELSE "none"

\* First element of the sequence s that is a key of the engines map, or "none".
RECURSIVE FirstRegistered(_, _)
FirstRegistered(s, i) ==
    IF i > Len(s) THEN "none"
    ELSE IF s[i] \in engines THEN s[i]
    ELSE FirstRegistered(s, i + 1)

\* A bug that gives up when a non-empty preferred list has no registered name.
selectEngineNoFallback(preferred) ==
    IF Len(preferred) > 0 THEN FirstRegistered(preferred, 1)
    ELSE FirstRegistered(PriorityOrder(kind), 1)

selectEngine(preferred) ==
    LET p == IF Len(preferred) > 0 THEN FirstRegistered(preferred, 1) ELSE "none"
    IN  IF p # "none" THEN p ELSE FirstRegistered(PriorityOrder(kind), 1)

RECURSIVE FilterRegistered(_, _)
FilterRegistered(names, i) ==
    IF i > Len(names) THEN <<>>
    ELSE IF names[i] \in engines
         THEN <<names[i]>> \o FilterRegistered(names, i + 1)
         ELSE FilterRegistered(names, i + 1)

\* A bug that forgets the lookup in the engines map.
getEnginesUnfiltered(names) ==
    IF Len(names) = 0 THEN PriorityOrder(kind) ELSE names

getEngines(names) ==
    FilterRegistered(IF Len(names) = 0 THEN PriorityOrder(kind) ELSE names, 1)

\* A fallback walk that does not skip the provider that just failed.
RECURSIVE NextFallbackNoSkip(_, _)
NextFallbackNoSkip(i, failedEngine) ==
    LET po == PriorityOrder(kind)
    IN  IF i > Len(po) THEN 0
        ELSE IF po[i] \in engines THEN i
        ELSE NextFallbackNoSkip(i + 1, failedEngine)

\* fallbackSearch: next index >= i of priorityOrder that is not the failed
\* provider and is registered; 0 when the loop runs off the list.
RECURSIVE NextFallback(_, _)
NextFallback(i, failedEngine) ==
    LET po == PriorityOrder(kind)
    IN  IF i > Len(po) THEN 0
        ELSE IF po[i] # failedEngine /\ po[i] \in engines THEN i
        ELSE NextFallback(i + 1, failedEngine)

\* A bug that drops the final truncation.
LimitResultsSkipped(rs, maxResults) == rs

\* allResults[:opts.MaxResults] when longer than opts.MaxResults.
LimitResults(rs, maxResults) ==
    IF Len(rs) > maxResults THEN SubSeq(rs, 1, maxResults) ELSE rs

\* The invocation log: nothing called yet, and one more call of a provider.
NoCalls == [n \in KnownNames |-> <<>>]
Invoke(log, name, maxResults) == [log EXCEPT ![name] = Append(@, maxResults)]
TotalCalls == Len(calls["bing"]) + Len(calls["brave"]) + Len(calls["duckduckgo"])

NoReturn == [err |-> "pending", results |-> <<>>]

\* ------------------------------------------------------------------ Init
Requests ==
    [MaxResults : 1..MaxWanted,
     ExtractContent : BOOLEAN,
     Engines : SeqsUpTo(KnownNames, MaxNames)]

\* NewDeepReader(): the defaults.
DefaultReader == [maxLinks |-> 10, sameDomain |-> TRUE, concurrency |-> 3]

NoDeepRead == [err |-> "pending"]

\* utils.RetryConfig of an idle retry helper, and "not returned yet".
NoRetryConfig == [MaxAttempts |-> 0, InitialDelay |-> 0, MaxDelay |-> 0, Multiplier |-> 1]
NoRetryReturn == [kind |-> "pending"]

\* No retry is going on.
RetryIdle ==
    /\ config = NoRetryConfig
    /\ attempt = 0
    /\ delay = 0
    /\ lastErr = 0
    /\ ctxDone = "no"
    /\ fnCalls = <<>>
    /\ rerr = NoRetryReturn

\* No deep read is going on and no deadline has passed.
ReaderIdle ==
    /\ RetryIdle
    /\ expired = FALSE
    /\ d = DefaultReader
    /\ dopts = <<>>
    /\ oi = 1
    /\ baseURL = ""
    /\ allLinks = <<>>
    /\ filteredLinks = <<>>
    /\ subResults = <<>>
    /\ cpc = <<>>
    /\ sem = 0
    /\ dres = NoDeepRead

InitCommon ==
    /\ ReaderIdle
    /\ kind \in Kinds
    /\ engine = "none"
    /\ fbIdx = 0
    /\ ret = NoReturn
    /\ calls = NoCalls
    /\ engs = <<>>
    /\ resultsPerEngine = 0
    /\ gpc = <<>>
    /\ gres = <<>>
    /\ gtmp = <<>>
    /\ mu = 0
    /\ merged = <<>>
    /\ semaphore = 0
    /\ failed = {}
    /\ extractCalls = 0

Init ==
    /\ InitCommon
    /\ op \in {"Search", "DeepSearch"}
    /\ opts \in Requests
    /\ engines \in SUBSET KnownNames
    /\ engineErr \in SUBSET engines
    /\ engineHits \in [KnownNames -> 0..MaxAvail]
    /\ \A n \in KnownNames : (n \notin engines \/ n \in engineErr) => engineHits[n] = 0
    /\ pc = "start"
    /\ results = <<>>
    /\ tpc = <<>>

\* --------------------------------------------------------------- Search
\* The tail of Search and of DeepSearch once the result list is known:
\* start the extraction loop, or return.
StartExtraction(rs) ==
    /\ pc' = "extract"
    /\ results' = rs
    /\ tpc' = [i \in 1..Len(rs) |-> "sem"]
    /\ UNCHANGED ret

ReturnOk(rs) ==
    /\ pc' = "done"
    /\ results' = rs
    /\ ret' = [err |-> "", results |-> rs]
    /\ UNCHANGED tpc

\* A bug that swallows the error: return nil, nil.
ReturnErrSwallowed(msg) ==
    /\ pc' = "done"
    /\ ret' = [err |-> "", results |-> <<>>]
    /\ UNCHANGED <<results, tpc>>

ReturnErr(msg) ==
    /\ pc' = "done"
    /\ ret' = [err |-> msg, results |-> <<>>]
    /\ UNCHANGED <<results, tpc>>

AfterSearch(rs) ==
    IF opts.ExtractContent /\ Len(rs) > 0 THEN StartExtraction(rs) ELSE ReturnOk(rs)

SearchStart ==
    /\ pc = "start" /\ op = "Search"
    /\ LET e == selectEngine(opts.Engines)
       IN  IF e = "none"
           THEN /\ ReturnErr("no search engine available")
                /\ UNCHANGED <<engine, calls>>
           ELSE /\ engine' = e
                /\ calls' = Invoke(calls, e, opts.MaxResults)
                /\ pc' = "primary"
                /\ UNCHANGED <<results, ret, tpc>>
    /\ UNCHANGED rvars
    /\ UNCHANGED <<kind, op, opts, engines, engineErr, engineHits, fbIdx, engs,
                   resultsPerEngine, gpc, gres, gtmp, mu, merged, semaphore,
                   failed, extractCalls>>

SearchPrimaryReturn ==
    /\ pc = "primary"
    /\ LET r == EngineSearch(engine, opts.MaxResults)
       IN  IF r.ok
           THEN AfterSearch(r.results) /\ UNCHANGED fbIdx
           ELSE /\ pc' = "fallback"
                /\ fbIdx' = 1
                /\ UNCHANGED <<results, ret, tpc>>
    /\ UNCHANGED rvars
    /\ UNCHANGED <<kind, op, opts, engines, engineErr, engineHits, engine, calls,
                   engs, resultsPerEngine, gpc, gres, gtmp, mu, merged,
                   semaphore, failed, extractCalls>>

FallbackNext ==
    /\ pc = "fallback"
    /\ LET j == NextFallback(fbIdx, engine)
       IN  IF j = 0
           THEN /\ ReturnErr("all search engines failed")
                /\ UNCHANGED <<fbIdx, calls>>
           ELSE /\ fbIdx' = j
                /\ calls' = Invoke(calls, PriorityOrder(kind)[j], opts.MaxResults)
                /\ pc' = "fbcall"
                /\ UNCHANGED <<results, ret, tpc>>
    /\ UNCHANGED rvars
    /\ UNCHANGED <<kind, op, opts, engines, engineErr, engineHits, engine, engs,
                   resultsPerEngine, gpc, gres, gtmp, mu, merged, semaphore,
                   failed, extractCalls>>

FallbackReturn ==
    /\ pc = "fbcall"
    /\ LET r == EngineSearch(PriorityOrder(kind)[fbIdx], opts.MaxResults)
       IN  IF r.ok
           THEN AfterSearch(r.results) /\ UNCHANGED fbIdx
           ELSE /\ pc' = "fallback"
                /\ fbIdx' = fbIdx + 1
                /\ UNCHANGED <<results, ret, tpc>>
    /\ UNCHANGED rvars
    /\ UNCHANGED <<kind, op, opts, engines, engineErr, engineHits, engine, calls,
                   engs, resultsPerEngine, gpc, gres, gtmp, mu, merged,
                   semaphore, failed, extractCalls>>

\* ------------------------------------------------------------ DeepSearch
\* Does the request run the extraction loop over allResults?  The hybrid
\* searcher always does, multiEngineSearcher only when asked to.
DeepExtracts == kind = "hybrid" \/ opts.ExtractContent

\* A bug that appends without taking the mutex.
MuIgnored(m) == TRUE

\* mu.Lock() succeeds only while nobody holds the mutex.
MuFree(m) == m = 0

DeepStart ==
    /\ pc = "start" /\ op = "DeepSearch"
    /\ LET es == getEngines(opts.Engines)
       IN  IF Len(es) = 0
           THEN /\ ReturnErr("no search engines available")
                /\ UNCHANGED <<engs, resultsPerEngine, gpc, gres, gtmp>>
           ELSE /\ engs' = es
                /\ resultsPerEngine' = Max(1, opts.MaxResults \div Len(es))
                /\ gpc' = [i \in 1..Len(es) |-> "search"]
                /\ gres' = [i \in 1..Len(es) |-> <<>>]
                /\ gtmp' = [i \in 1..Len(es) |-> <<>>]
                /\ pc' = "fanout"
                /\ UNCHANGED <<results, ret, tpc>>
    /\ UNCHANGED rvars
    /\ UNCHANGED <<kind, op, opts, engines, engineErr, engineHits, engine, fbIdx,
                   calls, mu, merged, semaphore, failed, extractCalls>>

\* A provider goroutine calls eng.Search and returns at once on an error.
ProviderSearch(i) ==
    /\ pc = "fanout" /\ gpc[i] = "search"
    /\ calls' = Invoke(calls, engs[i], resultsPerEngine)
    /\ LET r == EngineSearch(engs[i], resultsPerEngine)
       IN  IF r.ok
           THEN /\ gres' = [gres EXCEPT ![i] = r.results]
                /\ gpc' = [gpc EXCEPT ![i] = "lock"]
           ELSE /\ gpc' = [gpc EXCEPT ![i] = "done"]
                /\ UNCHANGED gres
    /\ UNCHANGED rvars
    /\ UNCHANGED <<kind, op, opts, engines, engineErr, engineHits, pc, engine,
                   fbIdx, results, ret, engs, resultsPerEngine, gtmp, mu, merged,
                   tpc, semaphore, failed, extractCalls>>

\* mu.Lock(), then append reads the current allResults.
ProviderLock(i) ==
    /\ pc = "fanout" /\ gpc[i] = "lock"
    /\ MuFree(mu)
    /\ mu' = i
    /\ gtmp' = [gtmp EXCEPT ![i] = results]
    /\ gpc' = [gpc EXCEPT ![i] = "append"]
    /\ UNCHANGED rvars
    /\ UNCHANGED <<kind, op, opts, engines, engineErr, engineHits, pc, engine,
                   fbIdx, results, ret, calls, engs, resultsPerEngine, gres,
                   merged, tpc, semaphore, failed, extractCalls>>

\* append stores the extended slice, then mu.Unlock() and wg.Done().
ProviderAppend(i) ==
    /\ pc = "fanout" /\ gpc[i] = "append"
    /\ results' = gtmp[i] \o gres[i]
    /\ mu' = 0
    /\ gpc' = [gpc EXCEPT ![i] = "done"]
    /\ gres' = [gres EXCEPT ![i] = <<>>]
    /\ gtmp' = [gtmp EXCEPT ![i] = <<>>]
    /\ UNCHANGED rvars
    /\ UNCHANGED <<kind, op, opts, engines, engineErr, engineHits, pc, engine,
                   fbIdx, ret, calls, engs, resultsPerEngine, merged,
                   tpc, semaphore, failed, extractCalls>>

\* wg.Wait() returns; the rest of DeepSearch up to the extraction loop or
\* the return.
\* A bug that truncates before it enriches.
ToEnrichTruncated(rs, maxResults) == LimitResults(rs, maxResults)
\* m.extractContentConcurrently(ctx, allResults): the whole concatenated list.
ToEnrich(rs, maxResults) == rs

DeepJoin ==
    /\ pc = "fanout"
    /\ \A i \in 1..Len(gpc) : gpc[i] = "done"
    /\ merged' = results
    /\ IF Len(results) = 0
       THEN ReturnErr("no results from any search engine")
       ELSE IF DeepExtracts
            THEN StartExtraction(ToEnrich(results, opts.MaxResults))
            ELSE ReturnOk(LimitResults(results, opts.MaxResults))
    /\ UNCHANGED rvars
    /\ UNCHANGED <<kind, op, opts, engines, engineErr, engineHits, engine, fbIdx,
                   calls, engs, resultsPerEngine, gpc, gres, gtmp, mu, semaphore,
                   failed, extractCalls>>

\* ------------------------------------------------- content extraction loop
\* What ExtractContent / ExtractSummary can hand back: an error, or a text
\* which is empty when the page has neither a title nor body text.
ExtractorOutcomes == {"error", "empty", "text"}

\* chromedp.Run under a ctx whose deadline has passed returns the ctx error.
OutcomesUnder(isExpired) == IF isExpired THEN {"error"} ELSE ExtractorOutcomes

\* A bug that never blocks on the semaphore.
SemaphoreNeverFull(n) == TRUE

\* semaphore <- struct{}{} blocks while the channel buffer is full.
SemaphoreHasRoom(n) == n < SemaphoreSize(kind)

InFlight == {i \in 1..Len(tpc) : tpc[i] = "extracting"}

\* The per-result goroutines exist from the moment the loop has launched
\* them; they run whatever the caller does.
Launched == pc \in {"extract", "done"}

\* The goroutine of result idx takes a slot and calls the extractor.
TaskAcquire(idx) ==
    /\ Launched /\ tpc[idx] = "sem"
    /\ SemaphoreHasRoom(semaphore)
    /\ semaphore' = semaphore + 1
    /\ tpc' = [tpc EXCEPT ![idx] = "extracting"]
    /\ extractCalls' = extractCalls + 1
    /\ UNCHANGED rvars
    /\ UNCHANGED <<kind, op, opts, engines, engineErr, engineHits, pc, engine,
                   fbIdx, results, ret, calls, engs, resultsPerEngine, gpc, gres,
                   gtmp, mu, merged, failed>>

\* A bug that stamps the slot whether or not the extractor failed.
WriteSlotIgnoringErr(rs, idx, out) ==
    [rs EXCEPT ![idx].Content = IF out = "text" THEN "text" ELSE "",
               ![idx].ExtractedAt = TRUE]

\* if err == nil { results[idx].Content = content; results[idx].ExtractedAt = now }
WriteSlot(rs, idx, out) ==
    IF out = "error"
    THEN rs
    ELSE [rs EXCEPT ![idx].Content = IF out = "text" THEN "text" ELSE "",
                    ![idx].ExtractedAt = TRUE]

\* A bug that gives the slot back only after a successful extraction.
ReleaseSlotOnSuccess(n, out) == IF out = "error" THEN n ELSE n - 1
\* defer func() { <-semaphore }(): the slot is given back however the
\* extractor call ended.
ReleaseSlot(n, out) == n - 1

\* The extractor call returns; on success the goroutine writes its own slot;
\* the deferred functions release the slot and signal the WaitGroup.
TaskExtract(idx) ==
    /\ Launched /\ tpc[idx] = "extracting"
    /\ \E out \in OutcomesUnder(expired) :
          /\ failed' = IF out = "error" THEN failed \cup {idx} ELSE failed
          /\ results' = WriteSlot(results, idx, out)
          /\ semaphore' = ReleaseSlot(semaphore, out)
    /\ tpc' = [tpc EXCEPT ![idx] = "done"]
    /\ UNCHANGED rvars
    /\ UNCHANGED <<kind, op, opts, engines, engineErr, engineHits, pc, engine,
                   fbIdx, ret, calls, engs, resultsPerEngine, gpc, gres, gtmp, mu,
                   merged, extractCalls>>

\* A wg.Wait() that does not wait.
WaitReturnsEarly(t) == TRUE
\* wg.Wait() returns once every goroutine has called wg.Done().
WaitReturns(t) == \A i \in 1..Len(t) : t[i] = "done"

\* wg.Wait() of the extraction loop returns, and with it the caller.
ExtractJoin ==
    /\ pc = "extract"
    /\ WaitReturns(tpc)
    /\ pc' = "done"
    /\ ret' = [err |-> "",
               results |-> IF op = "DeepSearch"
                           THEN LimitResults(results, opts.MaxResults)
                           ELSE results]
    /\ UNCHANGED rvars
    /\ UNCHANGED <<kind, op, opts, engines, engineErr, engineHits, engine, fbIdx,
                   results, calls, engs, resultsPerEngine, gpc, gres, gtmp, mu,
                   merged, tpc, semaphore, failed, extractCalls>>

\* ------------------------------------------------------- specifications
Next ==
    \/ SearchStart
    \/ SearchPrimaryReturn
    \/ FallbackNext
    \/ FallbackReturn
    \/ DeepStart
    \/ \E i \in 1..Len(gpc) : ProviderSearch(i)
    \/ \E i \in 1..Len(gpc) : ProviderLock(i)
    \/ \E i \in 1..Len(gpc) : ProviderAppend(i)
    \/ DeepJoin
    \/ \E idx \in 1..Len(tpc) : TaskAcquire(idx)
    \/ \E idx \in 1..Len(tpc) : TaskExtract(idx)
    \/ ExtractJoin

Spec == Init /\ [][Next]_vars

\* The extraction loop on its own, over a batch of any size.
InitExtract ==
    /\ InitCommon
    /\ op = "Extract"
    /\ opts = [MaxResults |-> 1, ExtractContent |-> TRUE, Engines |-> <<>>]
    /\ engines = {"bing"}
    /\ engineErr = {}
    /\ engineHits = [n \in KnownNames |-> 0]
    /\ pc = "extract"
    /\ \E n \in 0..MaxBatch :
          /\ results = [i \in 1..n |-> SearchResult("bing", i)]
          /\ tpc = [i \in 1..n |-> "sem"]

NextExtract ==
    \/ \E idx \in 1..Len(tpc) : TaskAcquire(idx)
    \/ \E idx \in 1..Len(tpc) : TaskExtract(idx)
    \/ ExtractJoin

SpecExtract == InitExtract /\ [][NextExtract]_vars

\* The timer of context.WithTimeout fires while Search has not returned.
Expire ==
    /\ op = "Search" /\ pc # "done"
    /\ ~expired
    /\ expired' = TRUE
    /\ UNCHANGED <<d, dopts, oi, baseURL, allLinks, filteredLinks, subResults, cpc,
                   sem, dres, tvars>>
    /\ UNCHANGED <<kind, op, opts, engines, engineErr, engineHits, pc, engine, fbIdx,
                   results, ret, calls, engs, resultsPerEngine, gpc, gres, gtmp, mu,
                   merged, tpc, semaphore, failed, extractCalls>>

\* Search racing its own deadline.
InitTimeout ==
    /\ Init
    /\ op = "Search"

NextTimeout ==
    \/ SearchStart
    \/ SearchPrimaryReturn
    \/ FallbackNext
    \/ FallbackReturn
    \/ \E idx \in 1..Len(tpc) : TaskAcquire(idx)
    \/ \E idx \in 1..Len(tpc) : TaskExtract(idx)
    \/ ExtractJoin
    \/ Expire

SpecTimeout == InitTimeout /\ [][NextTimeout]_vars

\* getEngines and selectEngine on their own, over every name list.
InitResolve ==
    /\ InitCommon
    /\ op = "Resolve"
    /\ opts \in [MaxResults : {1}, ExtractContent : {FALSE},
                 Engines : SeqsUpTo(RequestNames, MaxList)]
    /\ engines \in SUBSET KnownNames
    /\ engineErr = {}
    /\ engineHits = [n \in KnownNames |-> 0]
    /\ pc = "start"
    /\ results = <<>>
    /\ tpc = <<>>

Resolve ==
    /\ pc = "start" /\ op = "Resolve"
    /\ engs' = getEngines(opts.Engines)
    /\ engine' = selectEngine(opts.Engines)
    /\ pc' = "done"
    /\ UNCHANGED rvars
    /\ UNCHANGED <<kind, op, opts, engines, engineErr, engineHits, fbIdx, results,
                   ret, calls, resultsPerEngine, gpc, gres, gtmp, mu, merged, tpc,
                   semaphore, failed, extractCalls>>

NextResolve == Resolve

SpecResolve == InitResolve /\ [][NextResolve]_vars

\* DeepSearch over name lists that repeat names and hold unregistered ones;
\* each provider has one result for the query, or none.
InitFanout ==
    /\ InitCommon
    /\ op = "DeepSearch"
    /\ opts \in [MaxResults : 1..MaxBudget, ExtractContent : {FALSE},
                 Engines : SeqsUpTo(RequestNames, MaxAsked)]
    /\ engines \in SUBSET KnownNames
    /\ engineErr \in SUBSET engines
    /\ engineHits \in [KnownNames -> {0, 1}]
    /\ \A n \in KnownNames : (n \notin engines \/ n \in engineErr) => engineHits[n] = 0
    /\ pc = "start"
    /\ results = <<>>
    /\ tpc = <<>>

NextFanout ==
    \/ DeepStart
    \/ \E i \in 1..Len(gpc) : ProviderSearch(i)
    \/ \E i \in 1..Len(gpc) : ProviderLock(i)
    \/ \E i \in 1..Len(gpc) : ProviderAppend(i)
    \/ DeepJoin
    \/ \E idx \in 1..Len(tpc) : TaskAcquire(idx)
    \/ \E idx \in 1..Len(tpc) : TaskExtract(idx)
    \/ ExtractJoin

SpecFanout == InitFanout /\ [][NextFanout]_vars

\* ---------------------------------------------------------- DeepReader
\* The searcher's variables, which no deep-reader step touches.
qvars == <<kind, opts, engines, engineErr, engineHits, engine, fbIdx, results, ret,
           calls, engs, resultsPerEngine, gpc, gres, gtmp, mu, merged, tpc,
           semaphore, failed, extractCalls, expired>>
svars == <<qvars, tvars>>

\* No search is going on.
SearcherIdle ==
    /\ kind = "multi"
    /\ opts = [MaxResults |-> 1, ExtractContent |-> FALSE, Engines |-> <<>>]
    /\ engines = {}
    /\ engineErr = {}
    /\ engineHits = [n \in KnownNames |-> 0]
    /\ engine = "none"
    /\ fbIdx = 0
    /\ results = <<>>
    /\ ret = NoReturn
    /\ calls = NoCalls
    /\ engs = <<>>
    /\ resultsPerEngine = 0
    /\ gpc = <<>>
    /\ gres = <<>>
    /\ gtmp = <<>>
    /\ mu = 0
    /\ merged = <<>>
    /\ tpc = <<>>
    /\ semaphore = 0
    /\ failed = {}
    /\ extractCalls = 0
    /\ expired = FALSE

\* A bug that resets maxLinks to the default on a value out of range.
WithMaxLinksClamped(n, dd) ==
    IF n > 0 /\ n <= 20 THEN [dd EXCEPT !.maxLinks = n]
    ELSE [dd EXCEPT !.maxLinks = 10]

\* if n > 0 && n <= 20 { d.maxLinks = n }
WithMaxLinks(n, dd) ==
    IF n > 0 /\ n <= 20 THEN [dd EXCEPT !.maxLinks = n] ELSE dd

WithSameDomain(same, dd) == [dd EXCEPT !.sameDomain = same]

\* The options a caller may pass, as [opt, arg] records.
MaxLinksArgs == {-1, 0, 1, 5, 20, 21, 100}
Options ==
    [opt : {"WithMaxLinks"}, arg : MaxLinksArgs] \cup [opt : {"WithSameDomain"}, arg : BOOLEAN]

\* opt(d)
ApplyOption(o, dd) ==
    IF o.opt = "WithMaxLinks" THEN WithMaxLinks(o.arg, dd) ELSE WithSameDomain(o.arg, dd)

InitOptions ==
    /\ SearcherIdle
    /\ RetryIdle
    /\ op = "NewDeepReader"
    /\ pc = "start"
    /\ d = DefaultReader
    /\ dopts \in SeqsUpTo(Options, MaxOpts)
    /\ oi = 1
    /\ baseURL = ""
    /\ allLinks = <<>>
    /\ filteredLinks = <<>>
    /\ subResults = <<>>
    /\ cpc = <<>>
    /\ sem = 0
    /\ dres = NoDeepRead

\* for _, opt := range opts { opt(d) }
NewDeepReaderApply ==
    /\ op = "NewDeepReader" /\ pc = "start"
    /\ oi <= Len(dopts)
    /\ d' = ApplyOption(dopts[oi], d)
    /\ oi' = oi + 1
    /\ UNCHANGED <<op, pc, dopts, baseURL, allLinks, filteredLinks, subResults, cpc,
                   sem, dres>>
    /\ UNCHANGED svars

\* return d
NewDeepReaderReturn ==
    /\ op = "NewDeepReader" /\ pc = "start"
    /\ oi > Len(dopts)
    /\ pc' = "done"
    /\ UNCHANGED <<op, d, dopts, oi, baseURL, allLinks, filteredLinks, subResults,
                   cpc, sem, dres>>
    /\ UNCHANGED svars

NextOptions == NewDeepReaderApply \/ NewDeepReaderReturn

SpecOptions == InitOptions /\ [][NextOptions]_vars

\* -------------------------------------------------------------- strings
\* Go strings are TLA+ strings; package strings is computed on them.
HasPrefix(s, p) == Len(s) >= Len(p) /\ SubSeq(s, 1, Len(p)) = p
HasSuffix(s, p) == Len(s) >= Len(p) /\ SubSeq(s, Len(s) - Len(p) + 1, Len(s)) = p
Occurs(s, p) == {i \in 1..(Len(s) - Len(p) + 1) : SubSeq(s, i, i + Len(p) - 1) = p}
Contains(s, p) == \E i \in 1..(Len(s) - Len(p) + 1) : SubSeq(s, i, i + Len(p) - 1) = p
\* strings.Index: the 0-based position of the first occurrence, -1 for none.
Index(s, p) ==
    LET at == Occurs(s, p)
    IN  IF at = {} THEN -1 ELSE (CHOOSE i \in at : \A j \in at : i <= j) - 1
\* s[:n] and s[n:]
Upto(s, n) == SubSeq(s, 1, n)
From(s, n) == SubSeq(s, n + 1, Len(s))

UpperCase == "ABCDEFGHIJKLMNOPQRSTUVWXYZ"
LowerCase == "abcdefghijklmnopqrstuvwxyz"
\* The lower-case letter of each upper-case letter.
LowerOf ==
    [c \in {SubSeq(UpperCase, i, i) : i \in 1..Len(UpperCase)} |->
        SubSeq(LowerCase, Index(UpperCase, c) + 1, Index(UpperCase, c) + 1)]
LowerChar(c) == IF c \in DOMAIN LowerOf THEN LowerOf[c] ELSE c
RECURSIVE ToLower(_)
ToLower(s) ==
    IF Len(s) = 0 THEN "" ELSE LowerChar(SubSeq(s, 1, 1)) \o ToLower(From(s, 1))

\* net/url.Parse as far as filterLinks uses it: whether it fails, and Host.
\* The fragment and the query are cut off, a leading scheme is split off,
\* and the authority after "//" up to the next "/" is the host.
CutAt(s, c) == LET k == Index(s, c) IN IF k >= 0 THEN Upto(s, k) ELSE s
HexDigits == "0123456789abcdefABCDEF"
BadEscape(s) ==
    \E i \in Occurs(s, "%") :
        \/ i + 2 > Len(s)
        \/ ~Contains(HexDigits, SubSeq(s, i + 1, i + 1))
        \/ ~Contains(HexDigits, SubSeq(s, i + 2, i + 2))
SchemeChars == LowerCase \o UpperCase \o "0123456789+-."
\* getScheme: the length of the scheme, 0 for none, -1 for a leading colon.
SchemeLen(s) ==
    LET stop == {i \in 1..Len(s) : ~Contains(SchemeChars, SubSeq(s, i, i))}
    IN  IF stop = {} THEN 0
        ELSE LET i == CHOOSE k \in stop : \A j \in stop : k <= j
             IN  IF SubSeq(s, i, i) # ":" THEN 0
                 ELSE IF i = 1 THEN -1
                 ELSE IF Contains("0123456789+-.", SubSeq(s, 1, 1)) THEN 0
                 ELSE i - 1
ParseURL(raw) ==
    LET s == CutAt(raw, "#")
        n == SchemeLen(s)
        rest == CutAt(IF n > 0 THEN From(s, n + 1) ELSE s, "?")
    IN  IF n = -1 \/ BadEscape(s) THEN [ok |-> FALSE, Host |-> ""]
        ELSE IF HasPrefix(rest, "//") /\ ~HasPrefix(rest, "///")
             THEN [ok |-> TRUE, Host |-> CutAt(From(rest, 2), "/")]
             ELSE [ok |-> TRUE, Host |-> ""]

\* ------------------------------------------------------------ filterLinks
excludePatterns ==
    {"login", "signin", "sign-in", "signup", "sign-up", "register",
     "logout", "log-out", "subscribe", "unsubscribe",
     "privacy", "terms", "legal", "cookie",
     "contact", "about", "help", "support", "faq",
     "sitemap", "rss", "feed", "xml",
     "facebook.com", "twitter.com", "linkedin.com", "instagram.com",
     "youtube.com", "github.com", "medium.com"}

excludeExtensions ==
    {".pdf", ".zip", ".doc", ".docx", ".xls", ".xlsx",
     ".ppt", ".pptx", ".mp3", ".mp4", ".avi", ".mov",
     ".jpg", ".jpeg", ".png", ".gif", ".svg", ".webp"}

GenericTexts == {"click here", "read more", "more", "learn more", "here", "link"}

\* Skip empty or invalid URLs.
InvalidURL(linkURL) ==
    \/ linkURL = "" \/ linkURL = "#"
    \/ HasPrefix(linkURL, "javascript:")
    \/ HasPrefix(linkURL, "mailto:")
    \/ HasPrefix(linkURL, "tel:")

\* Skip same page anchors.
SamePageAnchor(base, linkURL) ==
    /\ Contains(linkURL, "#")
    /\ LET idx == Index(linkURL, "#")
           continueURL == IF idx > 0 THEN Upto(linkURL, idx) ELSE linkURL
       IN  continueURL = base \/ continueURL = ""

\* A bug that never compares hosts.
OtherDomainNever(base, linkURL, dd) == FALSE

\* Check same domain restriction.
OtherDomain(base, linkURL, dd) ==
    /\ dd.sameDomain
    /\ LET linkParsed == ParseURL(linkURL)
       IN  ~linkParsed.ok \/ linkParsed.Host # ParseURL(base).Host

\* A bug that drops both block lists.
ExcludedURLNever(linkURL) == FALSE

ExcludedURL(linkURL) ==
    LET linkLower == ToLower(linkURL)
    IN  \/ \E pattern \in excludePatterns : Contains(linkLower, pattern)
        \/ \E ext \in excludeExtensions : HasSuffix(linkLower, ext)

\* Skip short or generic link texts.
PoorText(text) == Len(text) < 3 \/ ToLower(text) \in GenericTexts

\* A bug that marks a URL as seen as soon as it is met.
MarkSeenAlways(skip) == TRUE

\* seen[linkURL] is set only for a link that is appended.
MarkSeen(skip) == ~skip

\* The loop over links from position i on: the slice filtered it appends.
RECURSIVE FilterLoop(_, _, _, _, _)
FilterLoop(base, links, dd, i, seen) ==
    IF i > Len(links) THEN <<>>
    ELSE LET link == links[i]
             early == InvalidURL(link.URL) \/ link.URL \in seen
             skip == \/ early
                     \/ SamePageAnchor(base, link.URL)
                     \/ OtherDomain(base, link.URL, dd)
                     \/ ExcludedURL(link.URL)
                     \/ PoorText(link.Text)
             seenNext == IF ~early /\ MarkSeen(skip) THEN seen \cup {link.URL} ELSE seen
         IN  (IF skip THEN <<>> ELSE <<link>>) \o FilterLoop(base, links, dd, i + 1, seenNext)

\* sort.Slice by len(Text), longest first; the sort is not stable, so every
\* arrangement with non-increasing lengths is a possible outcome.
SortOutcomes(f) ==
    LET n == Len(f)
        perms == {p \in [1..n -> 1..n] : \A i, j \in 1..n : p[i] = p[j] => i = j}
    IN  {[i \in 1..n |-> f[p[i]]] : p \in
            {q \in perms : \A i \in 1..(n - 1) : Len(f[q[i]].Text) >= Len(f[q[i + 1]].Text)}}

\* A bug that returns every survivor.
TakeAll(f, n) == f

\* if len(filtered) > d.maxLinks { filtered = filtered[:d.maxLinks] }
Take(f, n) == IF Len(f) > n THEN SubSeq(f, 1, n) ELSE f

\* A filterLinks that runs the loop whatever url.Parse says of the seed.
filterLinksNoFallback(base, links, dd) ==
    {Take(s, dd.maxLinks) : s \in SortOutcomes(FilterLoop(base, links, dd, 1, {}))}

\* The lists filterLinks may return.
filterLinks(base, links, dd) ==
    IF ~ParseURL(base).ok
    THEN {SubSeq(links, 1, Min(dd.maxLinks, Len(links)))}
    ELSE {Take(s, dd.maxLinks) : s \in SortOutcomes(FilterLoop(base, links, dd, 1, {}))}

\* filterLinks on its own, over raw link lists drawn from links of every
\* kind the loop tells apart.
Link(u, t) == [URL |-> u, Text |-> t]
\* Seeds the browser renders: one that url.Parse accepts and one it rejects
\* for its invalid percent escape.
SeedURLs == {"https://example.com", "https://example.com/%zz"}
RawLinks ==
    {Link("https://example.com/a1", "Interesting Long Article Title"),
     Link("https://example.com/a1", "Read More"),
     Link("https://example.com/a1", "Article"),
     Link("https://example.com/b2", "Page Two Title"),
     Link("https://example.com/login", "Sign In"),
     Link("https://other.com/page", "External Page With Long Title"),
     Link("/a1", "Interesting Long Article Title"),
     Link("/login", "Sign In"),
     Link("https://example.com/doc.pdf", "Download PDF"),
     Link("https://example.com#top", "Back to top")}
\* Readers NewDeepReader can build.
Readers == [maxLinks : {1, 2, 10}, sameDomain : BOOLEAN, concurrency : {3}]

InitFilter ==
    /\ SearcherIdle
    /\ RetryIdle
    /\ op = "filterLinks"
    /\ pc = "start"
    /\ d \in Readers
    /\ dopts = <<>>
    /\ oi = 1
    /\ baseURL \in SeedURLs
    /\ allLinks \in SeqsUpTo(RawLinks, MaxRaw)
    /\ filteredLinks = <<>>
    /\ subResults = <<>>
    /\ cpc = <<>>
    /\ sem = 0
    /\ dres = NoDeepRead

FilterLinks ==
    /\ op = "filterLinks" /\ pc = "start"
    /\ filteredLinks' \in filterLinks(baseURL, allLinks, d)
    /\ pc' = "done"
    /\ UNCHANGED <<op, d, dopts, oi, baseURL, allLinks, subResults, cpc, sem, dres>>
    /\ UNCHANGED svars

NextFilter == FilterLinks

SpecFilter == InitFilter /\ [][NextFilter]_vars

\* ------------------------------------------------ DeepRead, crawlSubPages
\* The zero SubPageResult a slot of make([]SubPageResult, n) holds.
ZeroSubPage == [URL |-> "", Title |-> "", Content |-> "", LinkText |-> "", Error |-> ""]

\* What HybridExtractor.ExtractSummary may return for a sub-page: an error, an
\* empty text, a text without a heading line, a text under a "# " heading.
FetchOutcomes == {"error", "empty", "text", "titled"}
FetchError == "failed to fetch rendered HTML"
FetchContent(out) ==
    IF out = "titled" THEN "# Title\nbody" ELSE IF out = "text" THEN "body" ELSE ""

\* Extract title from content.
TitleOf(content) ==
    IF HasPrefix(content, "# ") THEN From(CutAt(content, "\n"), 2) ELSE ""

\* The entry a goroutine stores for its link.
SubPage(link, out) ==
    IF out = "error"
    THEN [ZeroSubPage EXCEPT !.URL = link.URL, !.LinkText = link.Text, !.Error = FetchError]
    ELSE [ZeroSubPage EXCEPT !.URL = link.URL, !.Title = TitleOf(FetchContent(out)),
                             !.Content = FetchContent(out), !.LinkText = link.Text]

\* A bug that keeps only the pages fetched without an error.
ValidResultsOkOnly(rs) == SelectSeq(rs, LAMBDA r : r.URL # "" /\ r.Error = "")

\* Filter out empty results.
ValidResults(rs) == SelectSeq(rs, LAMBDA r : r.URL # "")

\* A bug that counts the pages fetched without an error.
CrawledCountOkOnly(subPages) == Len(SelectSeq(subPages, LAMBDA r : r.Error = ""))

\* result.CrawledLinks = len(subPages)
CrawledCount(subPages) == Len(subPages)

\* A bug that fails the whole read when a sub-page fetch failed.
DeepReadResultStrict(subPages, crawled) ==
    IF \E i \in 1..Len(subPages) : subPages[i].Error # ""
    THEN [err |-> "failed to read sub page"]
    ELSE [err |-> "", MainURL |-> baseURL, SubPages |-> subPages,
          TotalLinks |-> Len(allLinks), CrawledLinks |-> crawled]
\* return result, nil
DeepReadResult(subPages, crawled) ==
    [err |-> "", MainURL |-> baseURL, SubPages |-> subPages,
     TotalLinks |-> Len(allLinks), CrawledLinks |-> crawled]

InitDeepRead ==
    /\ SearcherIdle
    /\ RetryIdle
    /\ op = "DeepRead"
    /\ pc = "start"
    /\ d \in Readers
    /\ dopts = <<>>
    /\ oi = 1
    /\ baseURL \in SeedURLs
    /\ allLinks = <<>>
    /\ filteredLinks = <<>>
    /\ subResults = <<>>
    /\ cpc = <<>>
    /\ sem = 0
    /\ dres = NoDeepRead

\* The seed page cannot be rendered.
DeepReadSeedFails ==
    /\ op = "DeepRead" /\ pc = "start"
    /\ dres' = [err |-> "failed to read main page"]
    /\ pc' = "done"
    /\ UNCHANGED <<op, d, dopts, oi, baseURL, allLinks, filteredLinks, subResults,
                   cpc, sem>>
    /\ UNCHANGED svars

\* The seed page is rendered; its links are parsed and filtered, and either
\* the crawl starts or, with no candidate, DeepRead returns.
DeepReadSeed ==
    /\ op = "DeepRead" /\ pc = "start"
    /\ \E links \in SeqsUpTo(RawLinks, MaxRaw) :
          /\ allLinks' = links
          /\ filteredLinks' \in filterLinks(baseURL, links, d)
    /\ IF Len(filteredLinks') > 0
       THEN /\ subResults' = [i \in 1..Len(filteredLinks') |-> ZeroSubPage]
            /\ cpc' = [i \in 1..Len(filteredLinks') |-> "sem"]
            /\ pc' = "crawl"
            /\ UNCHANGED dres
       ELSE /\ dres' = [err |-> "", MainURL |-> baseURL, SubPages |-> <<>>,
                        TotalLinks |-> Len(allLinks'), CrawledLinks |-> 0]
            /\ pc' = "done"
            /\ UNCHANGED <<subResults, cpc>>
    /\ UNCHANGED <<op, d, dopts, oi, baseURL, sem>>
    /\ UNCHANGED svars

\* sem <- struct{}{}
CrawlAcquire(idx) ==
    /\ pc = "crawl" /\ cpc[idx] = "sem"
    /\ sem < d.concurrency
    /\ sem' = sem + 1
    /\ cpc' = [cpc EXCEPT ![idx] = "fetch"]
    /\ UNCHANGED <<op, pc, d, dopts, oi, baseURL, allLinks, filteredLinks, subResults,
                   dres>>
    /\ UNCHANGED svars

\* ExtractSummary returns; the goroutine stores its entry in its own slot,
\* releases the semaphore and signals the WaitGroup.
CrawlFetch(idx) ==
    /\ pc = "crawl" /\ cpc[idx] = "fetch"
    /\ \E out \in FetchOutcomes :
          /\ subResults' = [subResults EXCEPT ![idx] = SubPage(filteredLinks[idx], out)]
          /\ cpc' = [cpc EXCEPT ![idx] = out]
    /\ sem' = sem - 1
    /\ UNCHANGED <<op, pc, d, dopts, oi, baseURL, allLinks, filteredLinks, dres>>
    /\ UNCHANGED svars

\* wg.Wait() returns; crawlSubPages returns the non-empty slots and DeepRead
\* the assembled result.
CrawlJoin ==
    /\ pc = "crawl"
    /\ \A i \in 1..Len(cpc) : cpc[i] \in FetchOutcomes
    /\ LET subPages == ValidResults(subResults)
       IN  dres' = DeepReadResult(subPages, CrawledCount(subPages))
    /\ pc' = "done"
    /\ UNCHANGED <<op, d, dopts, oi, baseURL, allLinks, filteredLinks, subResults,
                   cpc, sem>>
    /\ UNCHANGED svars

NextDeepRead ==
    \/ DeepReadSeedFails
    \/ DeepReadSeed
    \/ \E idx \in 1..Len(cpc) : CrawlAcquire(idx)
    \/ \E idx \in 1..Len(cpc) : CrawlFetch(idx)
    \/ CrawlJoin

SpecDeepRead == InitDeepRead /\ [][NextDeepRead]_vars

\* The i-th of the candidate links of a seed page all of whose links pass.
CandidateLink(i) ==
    Link("https://example.com/page/" \o ToString(i), "Page number " \o ToString(i))

\* DeepRead at the start of crawlSubPages, over any number of candidates.
InitCrawl ==
    /\ SearcherIdle
    /\ RetryIdle
    /\ op = "DeepRead"
    /\ pc = "crawl"
    /\ d = DefaultReader
    /\ dopts = <<>>
    /\ oi = 1
    /\ baseURL = "https://example.com"
    /\ \E n \in 1..MaxCrawl :
          /\ allLinks = [i \in 1..n |-> CandidateLink(i)]
          /\ filteredLinks = allLinks
          /\ subResults = [i \in 1..n |-> ZeroSubPage]
          /\ cpc = [i \in 1..n |-> "sem"]
    /\ sem = 0
    /\ dres = NoDeepRead

\* The two semaphore-bounded loops, each from its start, under a scheduler
\* that lets a goroutine run when it can and extractor calls that return.
InitLoops == InitExtract \/ InitCrawl

NextLoops ==
    \/ \E idx \in 1..Len(tpc) : TaskAcquire(idx)
    \/ \E idx \in 1..Len(tpc) : TaskExtract(idx)
    \/ ExtractJoin
    \/ \E idx \in 1..Len(cpc) : CrawlAcquire(idx)
    \/ \E idx \in 1..Len(cpc) : CrawlFetch(idx)
    \/ CrawlJoin

SpecLoops == InitLoops /\ [][NextLoops]_vars /\ WF_vars(NextLoops)

\* ----------------------------------------------- utils.RetryWithBackoff
\* The configurations a caller hands over; durations in units of one tick.
RetryConfigs ==
    [MaxAttempts : 0..MaxTries, InitialDelay : {0, 1}, MaxDelay : {1, 2},
     Multiplier : {1, 2}]

\* A loop condition that stops one attempt early.
LoopContinuesOneShort(a, cfg) == a < cfg.MaxAttempts
\* attempt <= config.MaxAttempts
LoopContinues(a, cfg) == a <= cfg.MaxAttempts

\* delay = time.Duration(float64(delay) * config.Multiplier), capped at MaxDelay
NextDelay(dl, cfg) ==
    LET grown == dl * cfg.Multiplier
    IN  IF grown > cfg.MaxDelay THEN cfg.MaxDelay ELSE grown

\* A select that lets the timer win over a cancellation that came first.
WokenByTimerOnly(done) == "timer"
\* The case a parked select is woken on: the first of ctx.Done() and the
\* timer to become ready.
WokenBy(done) == IF done = "no" THEN "timer" ELSE "done"

\* The cases of the select that are ready when it is entered.
ReadyCases(done, dl) ==
    (IF done # "no" THEN {"done"} ELSE {}) \cup (IF dl <= 0 THEN {"timer"} ELSE {})

\* The errors RetryWithBackoff returns.
RetryNil == [kind |-> "nil"]
CtxErr == [kind |-> "context canceled"]
FailedAfter(n, err) == [kind |-> "failed after attempts", attempts |-> n, wraps |-> err]

InitRetry ==
    /\ SearcherIdle
    /\ op = "RetryWithBackoff"
    /\ pc = "loop"
    /\ d = DefaultReader
    /\ dopts = <<>>
    /\ oi = 1
    /\ baseURL = ""
    /\ allLinks = <<>>
    /\ filteredLinks = <<>>
    /\ subResults = <<>>
    /\ cpc = <<>>
    /\ sem = 0
    /\ dres = NoDeepRead
    /\ config \in RetryConfigs
    /\ attempt = 1
    /\ delay = config.InitialDelay
    /\ lastErr = 0
    /\ ctxDone = "no"
    /\ fnCalls = <<>>
    /\ rerr = NoRetryReturn

\* What no step of RetryWithBackoff touches.
RetryFrame ==
    UNCHANGED <<qvars, op, d, dopts, oi, baseURL, allLinks, filteredLinks,
                subResults, cpc, sem, dres, config>>

\* for attempt := 1; attempt <= config.MaxAttempts; attempt++ { ... }
\* return fmt.Errorf("failed after %d attempts: %w", config.MaxAttempts, lastErr)
RetryLoop ==
    /\ op = "RetryWithBackoff" /\ pc = "loop"
    /\ IF LoopContinues(attempt, config)
       THEN pc' = "call" /\ rerr' = rerr
       ELSE pc' = "done" /\ rerr' = FailedAfter(config.MaxAttempts, lastErr)
    /\ UNCHANGED <<attempt, delay, lastErr, ctxDone, fnCalls>>
    /\ RetryFrame

\* if err := fn(); err == nil { return nil } else { lastErr = err }
\* The error of the n-th invocation is numbered n.
RetryCall ==
    /\ op = "RetryWithBackoff" /\ pc = "call"
    /\ \E ok \in BOOLEAN :
         LET err == IF ok THEN 0 ELSE Len(fnCalls) + 1
         IN  /\ fnCalls' = Append(fnCalls, err)
             /\ IF ok
                THEN /\ pc' = "done"
                     /\ rerr' = RetryNil
                     /\ UNCHANGED <<attempt, lastErr>>
                ELSE /\ lastErr' = err
                     /\ rerr' = rerr
                     /\ IF attempt < config.MaxAttempts
                        THEN pc' = "select" /\ attempt' = attempt
                        ELSE pc' = "loop" /\ attempt' = attempt + 1
    /\ UNCHANGED <<delay, ctxDone>>
    /\ RetryFrame

\* The case the select proceeds on.
RetryTake(c) ==
    IF c = "done"
    THEN /\ pc' = "done"
         /\ rerr' = CtxErr
         /\ UNCHANGED <<attempt, delay>>
    ELSE /\ pc' = "loop"
         /\ rerr' = rerr
         /\ attempt' = attempt + 1
         /\ delay' = NextDelay(delay, config)

\* select { case <-ctx.Done(): ... case <-time.After(delay): ... } is entered:
\* one of the ready cases is taken, and with none ready the goroutine parks.
RetrySelect ==
    /\ op = "RetryWithBackoff" /\ pc = "select"
    /\ IF ReadyCases(ctxDone, delay) = {}
       THEN pc' = "parked" /\ UNCHANGED <<attempt, delay, rerr>>
       ELSE \E c \in ReadyCases(ctxDone, delay) : RetryTake(c)
    /\ UNCHANGED <<lastErr, ctxDone, fnCalls>>
    /\ RetryFrame

\* The parked select is woken, by the cancellation or by the timer.
RetryWake ==
    /\ op = "RetryWithBackoff" /\ pc = "parked"
    /\ RetryTake(WokenBy(ctxDone))
    /\ UNCHANGED <<lastErr, ctxDone, fnCalls>>
    /\ RetryFrame

\* The caller cancels ctx while RetryWithBackoff has not returned.
RetryCancel ==
    /\ op = "RetryWithBackoff" /\ pc # "done"
    /\ ctxDone = "no"
    /\ ctxDone' = IF pc = "parked" THEN "parked" ELSE "running"
    /\ UNCHANGED <<pc, attempt, delay, lastErr, fnCalls, rerr>>
    /\ RetryFrame

NextRetry ==
    \/ RetryLoop
    \/ RetryCall
    \/ RetrySelect
    \/ RetryWake
    \/ RetryCancel

SpecRetry == InitRetry /\ [][NextRetry]_vars

\* ===================================================================
\* Properties
\* ===================================================================
Key(r) == <<r.Engine, r.Rank>>
Keys(rs) == [i \in 1..Len(rs) |-> Key(rs[i])]

\* The priority lists as the documentation states them.
StatedOrder ==
    IF kind = "multi" THEN <<"bing", "brave", "duckduckgo">>
                      ELSE <<"duckduckgo", "bing", "brave">>

\* Providers that answer without an error.
Succeeding == engines \ engineErr

\* What the provider at position i of engs hands back in DeepSearch.
Returned(i) ==
    IF engs[i] \in Succeeding THEN Min(engineHits[engs[i]], resultsPerEngine) ELSE 0

TotalReturned == SumOver([i \in 1..Len(engs) |-> Returned(i)], Len(engs))

\* Concatenation of the successful providers' results in the order of engs.
RECURSIVE InListOrder(_)
InListOrder(i) ==
    IF i > Len(engs) THEN <<>>
    ELSE [j \in 1..Returned(i) |-> <<engs[i], j>>] \o InListOrder(i + 1)

DeepDone == op = "DeepSearch" /\ pc = "done"
SearchDone == op = "Search" /\ pc = "done"

\* C1: a successful DeepSearch returns the successful providers' results
\* concatenated in provider-list order, whichever provider finished first.
C1_ListOrder ==
    (DeepDone /\ ret.err = "") =>
        /\ Keys(merged) = InListOrder(1)
        /\ Keys(ret.results) = Keys(LimitResults(merged, opts.MaxResults))

\* C2 (as stated): after the extraction loop over N results with K failed
\* extractor calls, exactly N-K results have a non-empty Content and a set
\* ExtractedAt, the other K have neither, and no error is reported.
C2_NonEmptyContent ==
    (op = "Extract" /\ pc = "done") =>
        LET filled == {i \in 1..Len(results) :
                          results[i].Content # "" /\ results[i].ExtractedAt}
            blank  == {i \in 1..Len(results) :
                          results[i].Content = "" /\ ~results[i].ExtractedAt}
        IN  /\ Cardinality(filled) = Len(results) - Cardinality(failed)
            /\ Cardinality(blank) = Cardinality(failed)
            /\ ret.err = ""

\* C2 (amended): after the extraction loop over N results with K failed
\* extractor calls, exactly the N-K results whose call succeeded have
\* ExtractedAt set, the K others have an empty Content and no ExtractedAt,
\* and no error is reported.
C2_StampedUnlessFailed ==
    (op = "Extract" /\ pc = "done") =>
        LET stamped == {i \in 1..Len(results) : results[i].ExtractedAt}
        IN  /\ Cardinality(stamped) = Len(results) - Cardinality(failed)
            /\ stamped \cap failed = {}
            /\ \A i \in failed : results[i].Content = "" /\ ~results[i].ExtractedAt
            /\ ret.err = ""
            /\ ret.results = results

C2_Witness ==
    /\ op = "Extract" /\ pc = "done"
    /\ Len(results) >= 3
    /\ Cardinality(failed) = 1
    /\ \E i \in 1..Len(results) : results[i].Content = "text"

\* C3: at no time are more extractor calls in flight than the semaphore has
\* slots (3 for multiEngineSearcher, 2 for the hybrid searcher).
C3_BoundedInFlight ==
    Cardinality(InFlight) <= (IF kind = "multi" THEN 3 ELSE 2)

C3_Witness ==
    /\ kind = "multi"
    /\ Cardinality(InFlight) = 3
    /\ \E i \in 1..Len(tpc) : tpc[i] = "sem"

\* C4: when the provider Search selected fails and another registered
\* provider of the priority list succeeds, Search succeeds with the results
\* of the first succeeding provider in priority order, all tagged with its
\* name.
C4_FallbackWinner ==
    LET others == {i \in 1..3 : StatedOrder[i] \in Succeeding /\ StatedOrder[i] # engine}
    IN  (SearchDone /\ engine \in engineErr /\ others # {}) =>
            LET w == StatedOrder[CHOOSE i \in others : \A j \in others : i <= j]
            IN  /\ ret.err = ""
                /\ Len(ret.results) = Min(engineHits[w], opts.MaxResults)
                /\ \A i \in 1..Len(ret.results) :
                      ret.results[i].Engine = w /\ ret.results[i].Engine # engine
                /\ calls[w] = <<opts.MaxResults>>

C4_Witness ==
    /\ SearchDone
    /\ engine \in engineErr
    /\ TotalCalls = 3
    /\ ret.err = ""
    /\ Len(ret.results) > 0

\* C5: when every registered provider fails, Search returns the "all search
\* engines failed" error and DeepSearch over those providers the "no results
\* from any search engine" error, and neither returns results.
C5_AllFail ==
    (pc = "done" /\ engines # {} /\ engineErr = engines) =>
        /\ ret.results = <<>>
        /\ (op = "Search" /\ engine # "none") => ret.err = "all search engines failed"
        /\ (op = "DeepSearch" /\ Len(engs) > 0) => ret.err = "no results from any search engine"

C5_Witness ==
    /\ SearchDone
    /\ engineErr = engines
    /\ TotalCalls = 3
    /\ ret.err = "all search engines failed"

\* C6: Search and DeepSearch never return a successful empty result list.
C6_NoEmptySuccess ==
    (pc = "done" /\ op \in {"Search", "DeepSearch"}) =>
        ~(ret.err = "" /\ Len(ret.results) = 0)

\* C7: a successful DeepSearch returns min(opts.MaxResults, total number of
\* results the successful providers handed back) results, and they are a
\* prefix of the concatenation.
C7_Truncation ==
    (DeepDone /\ ret.err = "") =>
        /\ Len(ret.results) = Min(opts.MaxResults, TotalReturned)
        /\ \A i \in 1..Len(ret.results) : Key(ret.results[i]) = Key(merged[i])

C7_Witness ==
    /\ DeepDone /\ ret.err = ""
    /\ TotalReturned > opts.MaxResults
    /\ opts.MaxResults >= 2

\* Number of positions of the sequence ks that hold k.
Occurrences(ks, k) == Cardinality({i \in 1..Len(ks) : ks[i] = k})

\* C8: a failing provider does not abort its siblings: if any provider
\* returns results DeepSearch succeeds, and the list merged before the
\* truncation holds every result of every succeeding provider.
C8_NothingLost ==
    (op = "DeepSearch" /\ pc \in {"extract", "done"} /\ TotalReturned > 0) =>
        /\ pc = "done" => ret.err = ""
        /\ Len(merged) = TotalReturned
        /\ \A i \in 1..Len(engs) : \A j \in 1..Returned(i) :
              Occurrences(Keys(merged), <<engs[i], j>>) =
                  Cardinality({p \in 1..Len(engs) : engs[p] = engs[i]})

C8_Witness ==
    /\ DeepDone /\ ret.err = ""
    /\ \E i \in 1..Len(engs) : engs[i] \in engineErr
    /\ Cardinality({merged[i].Engine : i \in 1..Len(merged)}) >= 2

\* The request names no registered provider.
NothingSelectable ==
    \/ op = "Search" /\ engines \cap (Range(opts.Engines) \cup Range(StatedOrder)) = {}
    \/ op = "DeepSearch" /\ engines \cap Range(IF opts.Engines = <<>> THEN StatedOrder
                                                                     ELSE opts.Engines) = {}

\* C9: with no selectable provider (Search) or an empty resolved provider
\* list (DeepSearch) the call fails with the no-provider error and never
\* invokes a provider or the extractor.
C9_NoProvider ==
    NothingSelectable =>
        /\ calls = NoCalls
        /\ extractCalls = 0
        /\ pc \in {"start", "done"}
        /\ pc = "done" =>
              /\ ret.results = <<>>
              /\ ret.err = IF op = "Search" THEN "no search engine available"
                                            ELSE "no search engines available"

C9_Witness ==
    /\ DeepDone
    /\ engines # {}
    /\ opts.Engines # <<>>
    /\ Range(opts.Engines) \cap engines = {}
    /\ ret.err = "no search engines available"

\* The registered names of the sequence names, in order.
RECURSIVE Restrict(_)
Restrict(names) ==
    IF names = <<>> THEN <<>>
    ELSE (IF Head(names) \in engines THEN <<Head(names)>> ELSE <<>>) \o Restrict(Tail(names))

\* C10: getEngines returns no provider twice, returns the registered names
\* of its input in input order, and for an empty input the registered
\* providers in the default order.
C10_Resolve ==
    (op = "Resolve" /\ pc = "done") =>
        /\ \A i, j \in 1..Len(engs) : engs[i] = engs[j] => i = j
        /\ engs = Restrict(IF opts.Engines = <<>> THEN StatedOrder ELSE opts.Engines)

\* Positions of a name list that hold a registered name, and the least of them.
RegisteredAt(names) == {i \in 1..Len(names) : names[i] \in engines}
Least(S) == CHOOSE i \in S : \A j \in S : i <= j
ResolveDone == op = "Resolve" /\ pc = "done"

\* C11: selectEngine returns the first registered name of the preferred list;
\* for an empty preferred list the first registered name of the fixed
\* priority list; none when neither list has a registered name.  The
\* result is a function of the preferred list and the registry alone.
C11_SelectEngine ==
    ResolveDone =>
        LET p == opts.Engines
        IN  /\ RegisteredAt(p) # {} => engine = p[Least(RegisteredAt(p))]
            /\ (p = <<>> /\ RegisteredAt(StatedOrder) # {}) =>
                   engine = StatedOrder[Least(RegisteredAt(StatedOrder))]
            /\ (RegisteredAt(p) = {} /\ RegisteredAt(StatedOrder) = {}) => engine = "none"

\* A preferred list whose first name is unregistered and which holds two
\* different registered names: the earlier one is returned.
C11_Witness ==
    /\ ResolveDone
    /\ Len(opts.Engines) = 3
    /\ opts.Engines[1] \notin engines
    /\ opts.Engines[2] \in engines /\ opts.Engines[3] \in engines
    /\ opts.Engines[2] # opts.Engines[3]
    /\ engine = opts.Engines[2]
    /\ engine # StatedOrder[Least(RegisteredAt(StatedOrder))]

\* C12: a non-empty preferred list with no registered name makes selectEngine
\* fall back to the first registered provider of the default priority list
\* (bing for multiEngineSearcher when bing is registered), not to none.
C12_PreferredUnmatched ==
    (ResolveDone /\ opts.Engines # <<>> /\ RegisteredAt(opts.Engines) = {}
                 /\ RegisteredAt(StatedOrder) # {}) =>
        /\ engine = StatedOrder[Least(RegisteredAt(StatedOrder))]
        /\ (kind = "multi" /\ "bing" \in engines) => engine = "bing"

C12_Witness ==
    /\ ResolveDone
    /\ kind = "multi"
    /\ opts.Engines = <<"google">>
    /\ engines = KnownNames
    /\ engine = "bing"

\* C13: a Search call whose time budget expires before it returns does not
\* return results: it ends with an error, wherever the expiry falls.
C13_TimeoutError ==
    (SearchDone /\ expired) => ret.err # ""

\* The option applied last was WithMaxLinks with a value outside [1,20].
JustRefused ==
    /\ op = "NewDeepReader" /\ oi > 1
    /\ dopts[oi - 1].opt = "WithMaxLinks"
    /\ dopts[oi - 1].arg \notin 1..20

\* The value of the last WithMaxLinks among the first k options that is in
\* [1,20]; the default when there is none.
RECURSIVE LastAccepted(_)
LastAccepted(k) ==
    IF k = 0 THEN 10
    ELSE IF dopts[k].opt = "WithMaxLinks" /\ dopts[k].arg \in 1..20 THEN dopts[k].arg
    ELSE LastAccepted(k - 1)

\* C18 as stated: after WithMaxLinks(n) with n outside [1,20] the reader's
\* maxLinks is the default 10, whatever was applied before.
C18_ClampsToDefault ==
    JustRefused => d.maxLinks = 10

\* C18 amended: WithMaxLinks(n) with n outside [1,20] is not rejected and
\* leaves maxLinks as it was: the value of the last in-range WithMaxLinks
\* applied before it, the default 10 when there was none.
C18_KeepsPrevious ==
    op = "NewDeepReader" => d.maxLinks = LastAccepted(oi - 1)

C18_Witness ==
    /\ JustRefused
    /\ pc = "done"
    /\ dopts[1] = [opt |-> "WithMaxLinks", arg |-> 5]
    /\ dopts[2] = [opt |-> "WithMaxLinks", arg |-> 100]
    /\ d.maxLinks = 5

FilterDone == op = "filterLinks" /\ pc = "done"

LoginLink == Link("https://example.com/login", "Sign In")
ArticleLink == Link("https://example.com/a1", "Interesting Long Article Title")

\* C16 as stated: with default options the links {"/login","Sign In"} and
\* {"/a1","Interesting Long Article Title"}, filtered against a seed page on
\* example.com, yield exactly the second link.
C16_PathExample ==
    (FilterDone /\ d = DefaultReader /\ baseURL = "https://example.com"
                /\ allLinks = <<Link("/login", "Sign In"),
                                Link("/a1", "Interesting Long Article Title")>>) =>
        filteredLinks = <<Link("/a1", "Interesting Long Article Title")>>

\* C16 amended: with default options the links
\* {"https://example.com/login","Sign In"} and
\* {"https://example.com/a1","Interesting Long Article Title"}, filtered
\* against the seed https://example.com, yield exactly the second link; the
\* same two links given as the bare paths "/login" and "/a1" have no host and
\* are both dropped.
C16_AbsoluteExample ==
    (FilterDone /\ d = DefaultReader /\ baseURL = "https://example.com") =>
        /\ allLinks = <<LoginLink, ArticleLink>> => filteredLinks = <<ArticleLink>>
        /\ allLinks = <<Link("/login", "Sign In"),
                        Link("/a1", "Interesting Long Article Title")>> =>
               filteredLinks = <<>>

C16_Witness ==
    /\ FilterDone /\ d = DefaultReader /\ baseURL = "https://example.com"
    /\ allLinks = <<LoginLink, ArticleLink>>
    /\ filteredLinks = <<ArticleLink>>

\* Positions of the raw list that hold the URL of link l.
SameURLAt(l) == {j \in 1..Len(allLinks) : allLinks[j].URL = l.URL}

Passes(l) ==
    /\ ~InvalidURL(l.URL)
    /\ ~SamePageAnchor(baseURL, l.URL)
    /\ ~(d.sameDomain /\ (~ParseURL(l.URL).ok \/ ParseURL(l.URL).Host # ParseURL(baseURL).Host))
    /\ ~ExcludedURL(l.URL)
    /\ ~PoorText(l.Text)

\* Positions of the raw list holding a link that passes and whose URL no
\* earlier passing link has: the survivors of the exclusion steps.
SurvivorAt ==
    LET passing == {j \in 1..Len(allLinks) : Passes(allLinks[j])}
    IN  {j \in passing : \A k \in passing : k < j => allLinks[k].URL # allLinks[j].URL}

C19_LongestFirst ==
    (FilterDone /\ ParseURL(baseURL).ok) =>
        LET survivors == SurvivorAt
        IN  /\ Len(filteredLinks) = Min(d.maxLinks, Cardinality(survivors))
            /\ \A i \in 1..(Len(filteredLinks) - 1) :
                   Len(filteredLinks[i].Text) >= Len(filteredLinks[i + 1].Text)
            /\ \A i \in 1..Len(filteredLinks) :
                   \E j \in survivors : filteredLinks[i] = allLinks[j]
            /\ \A j \in survivors :
                   allLinks[j] \notin Range(filteredLinks) =>
                       \A i \in 1..Len(filteredLinks) :
                           Len(filteredLinks[i].Text) >= Len(allLinks[j].Text)

\* Two survivors of different length and room for one: the longer is returned.
C19_Witness ==
    /\ FilterDone
    /\ d.maxLinks = 1
    /\ allLinks = <<Link("https://example.com/b2", "Page Two Title"), ArticleLink>>
    /\ filteredLinks = <<ArticleLink>>

SeedHost == ParseURL(baseURL).Host
ExternalLink == Link("https://other.com/page", "External Page With Long Title")

\* The cap left the survivor at position j out: the returned list is full
\* and holds no link with a shorter anchor text.
CutByCap(j) ==
    /\ Len(filteredLinks) = d.maxLinks
    /\ \A i \in 1..Len(filteredLinks) : Len(filteredLinks[i].Text) >= Len(allLinks[j].Text)

\* The host of the seed as written, whether or not url.Parse accepts the
\* rest of the URL.
WrittenHost(u) == CutAt(From(u, Len("https://")), "/")

DeepReadReturned == op = "DeepRead" /\ pc = "done" /\ dres.err = ""

\* C14: every DeepReadResult satisfies CrawledLinks = len(SubPages) <=
\* TotalLinks, also when no link survives the filter (SubPages empty,
\* CrawledLinks 0) and when sub-page fetches fail.
C14_Counts ==
    DeepReadReturned =>
        /\ dres.CrawledLinks = Len(dres.SubPages)
        /\ Len(dres.SubPages) <= dres.TotalLinks
        /\ dres.TotalLinks = Len(allLinks)
        /\ filteredLinks = <<>> => (dres.SubPages = <<>> /\ dres.CrawledLinks = 0)

\* One candidate out of two links found, and its fetch failed.
C14_Witness ==
    /\ DeepReadReturned
    /\ dres.TotalLinks = 2
    /\ dres.CrawledLinks = 1
    /\ Len(dres.SubPages) = 1
    /\ cpc = <<"error">>

\* C15: crawlSubPages returns exactly one SubPageResult per candidate link,
\* in candidate order, whatever the completion order and whichever fetches
\* fail: a failed fetch gives an entry with a non-empty Error and an empty
\* Content, a successful one an entry with an empty Error and the fetched
\* text, and every entry carries its own link's URL and anchor text.
C15_OnePerCandidate ==
    (DeepReadReturned /\ filteredLinks # <<>>) =>
        /\ Len(dres.SubPages) = Len(filteredLinks)
        /\ \A i \in 1..Len(filteredLinks) :
               LET r == dres.SubPages[i]
               IN  /\ r.URL = filteredLinks[i].URL
                   /\ r.LinkText = filteredLinks[i].Text
                   /\ cpc[i] = "error" => (r.Error # "" /\ r.Content = "")
                   /\ cpc[i] # "error" => (r.Error = "" /\ r.Content = FetchContent(cpc[i]))

\* The first candidate's fetch failed, the second's did not; both entries
\* are there, in candidate order.
C15_Witness ==
    /\ DeepReadReturned
    /\ Len(filteredLinks) = 2
    /\ cpc = <<"error", "titled">>
    /\ dres.SubPages[1].Error # "" /\ dres.SubPages[1].URL = filteredLinks[1].URL
    /\ dres.SubPages[2].Error = "" /\ dres.SubPages[2].Title = "Title"

\* ------------------------------------------------- RetryWithBackoff claims
Succeeded == {i \in 1..Len(fnCalls) : fnCalls[i] = 0}

\* C21: with ctx not cancelled, RetryWithBackoff returns nil right after the
\* first successful invocation of fn and invokes it no more; when no
\* invocation succeeds it has invoked fn exactly MaxAttempts times and
\* returns the error wrapping the last failure.
C21_RetryOutcome ==
    (op = "RetryWithBackoff" /\ ctxDone = "no") =>
        LET n == Len(fnCalls)
        IN  /\ Succeeded # {} => (Succeeded = {n} /\ pc = "done" /\ rerr = RetryNil)
            /\ (pc = "done" /\ Succeeded = {}) =>
                   /\ n = config.MaxAttempts
                   /\ rerr = FailedAfter(config.MaxAttempts,
                                         IF n = 0 THEN 0 ELSE fnCalls[n])

\* Three failures out of three attempts.
C21_Witness ==
    /\ op = "RetryWithBackoff" /\ pc = "done" /\ ctxDone = "no"
    /\ config.MaxAttempts = 3
    /\ fnCalls = <<1, 2, 3>>
    /\ rerr = FailedAfter(3, 3)

\* C22: once ctx is cancelled while the select between two attempts is
\* parked, fn is not invoked again and RetryWithBackoff returns ctx.Err().
C22_CancelWhileWaiting ==
    [][ctxDone' = "parked" =>
          /\ fnCalls' = fnCalls
          /\ pc' \in {"parked", "done"}
          /\ pc' = "done" => rerr' = CtxErr]_vars

\* Cancelled during the wait after the first of three attempts.
C22_Witness ==
    /\ op = "RetryWithBackoff" /\ pc = "done" /\ ctxDone = "parked"
    /\ config.MaxAttempts = 3
    /\ fnCalls = <<1>>
    /\ rerr = CtxErr

\* --------------------------------------------------- enrichment claims
\* C23: an enrichment call returns only after every per-result task has
\* completed: once Search, DeepSearch or the loop itself has returned, every
\* task is done, no extractor call is made and no result is written.
C23_JoinBeforeReturn ==
    [][(pc' = "done" /\ op' \in {"Search", "DeepSearch", "Extract"}) =>
          /\ \A i \in 1..Len(tpc') : tpc'[i] = "done"
          /\ semaphore' = 0
          /\ pc = "done" => (results' = results /\ extractCalls' = extractCalls)]_vars

\* Search has returned two results, both enriched.
C23_Witness ==
    /\ op = "Search" /\ pc = "done"
    /\ Len(tpc) = 2 /\ extractCalls = 2
    /\ ret.err = "" /\ ret.results = results
    /\ \A i \in 1..2 : results[i].Content = "text" /\ results[i].ExtractedAt

\* ----------------------------------------------------- DeepSearch claims
\* The providers DeepSearch resolves opts.Engines to.
Resolved == Range(getEngines(opts.Engines))
FanoutJoined == op = "DeepSearch" /\ pc \notin {"start", "fanout"}

\* C24: DeepSearch invokes each resolved provider exactly once, with the cap
\* max(1, floor(opts.MaxResults / number of resolved providers)), and no
\* other provider; unregistered names do not count in the divisor.
C24_OncePerProvider ==
    (FanoutJoined /\ Resolved # {}) =>
        LET cap == Max(1, opts.MaxResults \div Cardinality(Resolved))
        IN  \A n \in KnownNames :
               calls[n] = IF n \in Resolved THEN <<cap>> ELSE <<>>

\* The same for requests that name no provider twice.
NoNameTwice ==
    \A i, j \in 1..Len(opts.Engines) : opts.Engines[i] = opts.Engines[j] => i = j
C24_OncePerProviderDistinct == NoNameTwice => C24_OncePerProvider

\* C25: in DeepSearch truncation comes after enrichment: the extractor has
\* been called once for every result of the concatenated list, those beyond
\* position MaxResults included, and the returned list is the enriched list
\* cut to MaxResults, each of its results with its attempt behind it.
C25_TruncateAfterEnrich ==
    (op = "DeepSearch" /\ pc = "done" /\ ret.err = "" /\ DeepExtracts) =>
        /\ extractCalls = Len(merged)
        /\ Len(tpc) = Len(merged)
        /\ \A i \in 1..Len(merged) : tpc[i] = "done"
        /\ ret.results = LimitResults(results, opts.MaxResults)
        /\ \A i \in 1..Len(results) :
               /\ Key(results[i]) = Key(merged[i])
               /\ i \in failed <=> ~results[i].ExtractedAt

\* Three results enriched, the third cut off afterwards.
C25_Witness ==
    /\ op = "DeepSearch" /\ pc = "done" /\ ret.err = ""
    /\ opts.MaxResults = 2 /\ Len(merged) = 3
    /\ extractCalls = 3
    /\ Len(ret.results) = 2
    /\ results[3].ExtractedAt

\* ---------------------------------------------------------- Search claims
Invoked == {n \in KnownNames : calls[n] # <<>>}

\* C28: within one Search call every provider is invoked at most once, and
\* no provider is invoked after one has succeeded.
C28_AtMostOnce ==
    op = "Search" =>
        /\ \A n \in KnownNames : Len(calls[n]) <= 1
        /\ Cardinality(Invoked \ engineErr) <= 1
        /\ (Invoked \ engineErr # {}) => (pc \in {"primary", "fbcall", "extract", "done"})

\* Two providers failed and the third answered.
C28_Witness ==
    /\ op = "Search" /\ pc = "done" /\ ret.err = ""
    /\ Invoked = KnownNames
    /\ Cardinality(engineErr) = 2

\* C26: once the request deadline has passed, no provider call and no
\* extractor call that had not yet started is launched.
C26_NoLaunchAfterExpiry ==
    [][expired => (calls' = calls /\ extractCalls' = extractCalls)]_vars

\* ------------------------------------------------------- DeepRead claims
DeepReadFailed == op = "DeepRead" /\ dres.err \notin {"", "pending"}

\* C27: a DeepRead whose seed render fails returns the error and no
\* DeepReadResult, and no sub-page fetch is started; nothing else makes
\* DeepRead fail: once the seed page is rendered it returns a result, also
\* when sub-page fetches fail.
C27_SeedFailureOnly ==
    /\ DeepReadFailed =>
          /\ pc = "done"
          /\ dres = [err |-> "failed to read main page"]
          /\ allLinks = <<>> /\ filteredLinks = <<>>
          /\ cpc = <<>> /\ subResults = <<>> /\ sem = 0
    /\ (op = "DeepRead" /\ pc = "done" /\ cpc # <<>>) =>
          /\ dres.err = ""
          /\ Len(dres.SubPages) = Len(cpc)

\* The seed render failed.
C27_Witness ==
    /\ DeepReadFailed /\ pc = "done"
    /\ dres.err = "failed to read main page"
    /\ cpc = <<>>

\* ---------------------------------------------------- filterLinks claims
\* C30: when the seed URL cannot be parsed, filterLinks applies no exclusion
\* step, no duplicate check and no sorting: it returns the first
\* min(maxLinks, len(links)) raw links in their original order.
C30_UnparsedSeed ==
    (FilterDone /\ ~ParseURL(baseURL).ok) =>
        /\ Len(filteredLinks) = Min(d.maxLinks, Len(allLinks))
        /\ \A i \in 1..Len(filteredLinks) : filteredLinks[i] = allLinks[i]

\* A login link and a longer-titled link after it come back as they were.
C30_Witness ==
    /\ FilterDone /\ ~ParseURL(baseURL).ok
    /\ allLinks = <<LoginLink, ArticleLink>>
    /\ filteredLinks = <<LoginLink, ArticleLink>>

\* ------------------------------------------------------ termination claims
\* C29: under fair scheduling and with extractor calls that return, every
\* enrichment call and every crawlSubPages call returns, for any number of
\* items: no task waits forever on the semaphore.
C29_LoopsReturn == <>(pc = "done")

\* Four results over three slots, some extractions failed, all returned.
C29_Witness ==
    /\ op = "Extract" /\ pc = "done"
    /\ Len(tpc) = 4 /\ SemaphoreSize(kind) = 3
    /\ Cardinality(failed) = 2
    /\ semaphore = 0
====
